---- MODULE Spec2Model ----
(***************************************************************************)
(* Model of the tournament application: the join flow of                   *)
(* src/js/user-data.js, the simulated wallet transactions, and the admin   *)
(* manage/settle flow of src/js/admin-data.js, running against a document  *)
(* store whose runTransaction and writeBatch commits are atomic.           *)
(***************************************************************************)
EXTENDS Integers, Sequences, FiniteSets, Bags, TLC

\* ---------------------------------------------------------------- bounds
MaxJoins == 2          \* join operations started in a behaviour of Spec
MaxSims == 1           \* simulated deposits/withdrawals started in a behaviour of Spec
MaxAdminJoins == 1     \* join operations started in a behaviour of SpecAdmin
MaxSettles == 2        \* settlement submissions started in a behaviour of SpecAdmin
MaxKillInput == 1      \* largest kill count typed into a kill input
MaxManageSettles == 1  \* settlement submissions started in a behaviour of SpecManage or SpecClose
MaxWalletOps == 3      \* joins, simulated transactions and settlements in a behaviour of SpecWallet
MaxTournaments == 2    \* tournaments created in a behaviour of SpecCreate
MaxParticipantsInput == 10  \* largest value typed into t-max-participants
MaxLogins == 2         \* runs of initUserListeners on one user page in a behaviour of SpecLogin
MaxLoginJoins == 2     \* join operations started in a behaviour of SpecLogin
MaxLayoutSlots == 8    \* largest maxParticipants of the tournament in a behaviour of SpecLayout
MaxLayoutJoins == 1    \* join operations started in a behaviour of SpecLayout

\* ------------------------------------------------------ program constants
DepositAmount == 100   \* initWalletButtons: handleSimulatedTransaction(100, 'credit', ...)
WithdrawAmount == 50   \* initWalletButtons: handleSimulatedTransaction(50, 'debit', ...)
SignupBalance == 0     \* handleSignUp: walletBalance: 0

Users == {"u1", "u2"}
NoId == 0              \* currentManagingTournament.id: null (document ids start at 1)
NoUser == ""
NoKills == -1          \* a participant document without a kills field
NoTeam == 0            \* selectedSlot.teamId: null (team numbers start at 1)

\* Values the admin types into the create-tournament form.
WinnerForm ==
    [mode |-> "solo", maxParticipants |-> 2, entryFee |-> 50, prizePool |-> 150,
     perKillEnabled |-> FALSE, perKillPrize |-> 0]

SmallForm ==
    [mode |-> "solo", maxParticipants |-> 1, entryFee |-> 50, prizePool |-> 70,
     perKillEnabled |-> FALSE, perKillPrize |-> 0]

PerKillForm ==
    [mode |-> "solo", maxParticipants |-> 2, entryFee |-> 50, prizePool |-> 70,
     perKillEnabled |-> TRUE, perKillPrize |-> 30]

CheapKillForm ==
    [mode |-> "solo", maxParticipants |-> 2, entryFee |-> 50, prizePool |-> 70,
     perKillEnabled |-> TRUE, perKillPrize |-> 20]

TournamentForms == { WinnerForm, SmallForm, PerKillForm }

\* Values the admin types into the room-details form.
RoomInputs == { [roomId |-> "R1", roomPassword |-> "P1"] }

VARIABLES
    users,          \* users collection: uid -> [walletBalance]
    tournaments,    \* tournaments collection: sequence of documents, id = index
    participants,   \* participants collection: set of documents
    transactions,   \* transactions collection: bag of [userId, amount, type]
    cachedBalance,  \* window.currentUser.walletBalance of each user's session
    joins,          \* handleJoinTournamentWithSlot invocations
    sims,           \* handleSimulatedTransaction invocations
    currentManagingTournament,  \* admin-data.js module state
    form,           \* the declare-winner-form as last built by the participants listener
    formDisabled,   \* declare-winner-form carries 'pointer-events-none'
    roomPending,    \* updateDoc calls of handleUpdateRoomDetails not yet applied
    settles,        \* handleDeclareWinner invocations
    joinFlowState,  \* per user page: the join modal flow (tournament, mode, selected slot)
    slotButtons,    \* per user page: the buttons built into join-slot-container
    handlers,       \* per user page: handlersAttached and the click listeners attached so far
    loader          \* per page (each user, the admin): the loader overlay is shown

vars == << users, tournaments, participants, transactions, cachedBalance, joins, sims,
           currentManagingTournament, form, formDisabled, roomPending, settles,
           joinFlowState, slotButtons, handlers, loader >>

db == << users, tournaments, participants, transactions >>
adminVars == << currentManagingTournament, form, formDisabled, roomPending, settles >>

\* ----------------------------------------------------------------- helpers
TIds == 1..Len(tournaments)

ParticipantsOf(t) == { p \in participants : p.tournamentId = t }

\* doc(collection(db, "participants")): a fresh document id
NewParticipantId == Cardinality(participants) + 1

TxRecord(u, amount, type) == [userId |-> u, amount |-> amount, type |-> type]

AddTx(txs, u, amount, type) == txs (+) SetToBag({TxRecord(u, amount, type)})

\* The pages whose loader overlay the handlers drive: one per user, one for
\* the admin.
Sessions == Users \cup {"admin"}

\* showLoader() and hideLoader() of ui.js on the page of session s.
ShowLoader(s) == [loader EXCEPT ![s] = TRUE]

HideLoader(s) == [loader EXCEPT ![s] = FALSE]

\* A freshly loaded user page: handlersAttached is false and no click
\* listener has been added.
NoHandlers == [handlersAttached |-> FALSE, delegated |-> 0, joinModal |-> 0]

\* The end of initUserListeners: attachDelegatedHandlers() runs only while
\* handlersAttached is false, attachJoinModalHandlers() runs every time and
\* adds one more click listener to each join-modal button.
AttachHandlers(h) ==
    [handlersAttached |-> TRUE,
     delegated |-> IF h.handlersAttached THEN h.delegated ELSE h.delegated + 1,
     joinModal |-> h.joinModal + 1]

\* ------------------------------------------------------------ user session
\* onSnapshot(userDocRef): window.currentUser is replaced by the user document.
WalletSnapshot(u) ==
    /\ cachedBalance[u] # users[u].walletBalance
    /\ cachedBalance' = [cachedBalance EXCEPT ![u] = users[u].walletBalance]
    /\ UNCHANGED << joinFlowState, slotButtons, handlers, loader, db, joins, sims, adminVars >>

\* handleSimulatedTransaction up to batch.commit(): the funds check reads the
\* cached balance; a rejected withdrawal throws before the batch is built.
\* A handleSimulatedTransaction invocation that has returned with result r.
SimDone(r) == [userId |-> NoUser, amount |-> 0, type |-> "", pc |-> "done", result |-> r]

SimSubmit(u, type) ==
    /\ LET amount == IF type = "credit" THEN DepositAmount ELSE WithdrawAmount
           rejected == type = "debit" /\ cachedBalance[u] < amount
       IN sims' = Append(sims, IF rejected THEN SimDone("insufficientFunds")
                               ELSE [userId |-> u, amount |-> amount, type |-> type,
                                     pc |-> "commit", result |-> "pending"])
    /\ loader' = IF sims'[Len(sims')].pc = "done" THEN HideLoader(u) ELSE ShowLoader(u)
    /\ UNCHANGED << joinFlowState, slotButtons, handlers, db, cachedBalance, joins, adminVars >>

\* SimCommit without the transaction record of the batch.
SimCommitUnrecorded(i) ==
    /\ i \in 1..Len(sims)
    /\ sims[i].pc = "commit"
    /\ LET s == sims[i]
           delta == IF s.type = "credit" THEN s.amount ELSE 0 - s.amount
       IN /\ users' = [users EXCEPT ![s.userId].walletBalance = @ + delta]
          /\ transactions' = transactions
    /\ sims' = [sims EXCEPT ![i] = SimDone("ok")]
    /\ loader' = HideLoader(sims[i].userId)
    /\ UNCHANGED << joinFlowState, slotButtons, handlers, tournaments, participants, cachedBalance, joins, adminVars >>

\* batch.commit(): walletBalance: increment(+-amount) and the transaction
\* record, in one atomic write.
SimCommit(i) ==
    /\ i \in 1..Len(sims)
    /\ sims[i].pc = "commit"
    /\ LET s == sims[i]
           delta == IF s.type = "credit" THEN s.amount ELSE 0 - s.amount
       IN /\ users' = [users EXCEPT ![s.userId].walletBalance = @ + delta]
          /\ transactions' = AddTx(transactions, s.userId, s.amount, s.type)
    /\ sims' = [sims EXCEPT ![i] = SimDone("ok")]
    /\ loader' = HideLoader(sims[i].userId)
    /\ UNCHANGED << joinFlowState, slotButtons, handlers, tournaments, participants, cachedBalance, joins, adminVars >>

\* joinFlowState as declared and as resetJoinFlowState leaves it.
NoJoinFlow ==
    [tournamentId |-> NoId, gameMode |-> "solo",
     selectedSlot |-> [slotIndex |-> 0, teamId |-> NoTeam]]

\* resetJoinFlowState() on the page of user u, run by the final Join click
\* listener once handleJoinTournamentWithSlot has returned.
ResetJoinFlowState(u) == [joinFlowState EXCEPT ![u] = NoJoinFlow]

\* startJoinFlow(tournamentId, entryFee, gameMode): a click on the join button
\* rendered for tournament t, whose data-mode is the tournament's mode.
StartJoinFlow(u, t) ==
    /\ t \in TIds
    /\ joinFlowState' = [joinFlowState EXCEPT ![u] =
                            [NoJoinFlow EXCEPT !.tournamentId = t,
                                               !.gameMode = tournaments[t].mode]]
    /\ UNCHANGED << slotButtons, handlers, loader, db, cachedBalance, joins, sims, adminVars >>

\* const teamSize = (gameMode === 'duo') ? 2 : (gameMode === 'squad') ? 4 : 1
LayoutTeamSize(gameMode) ==
    IF gameMode = "duo" THEN 2 ELSE IF gameMode = "squad" THEN 4 ELSE 1

\* The buttons buildAndShowSlotSelection appends, in order, each with the
\* { slotIndex, teamId } its click stores: the solo grid is the loop
\* i = 1..max with teamId null; duo and squad are the loops team = 1..
\* floor(max / teamSize), s = 0..teamSize-1 with slotIndex
\* (team - 1) * teamSize + s + 1 and teamId team. A button is disabled when
\* a participant record read by getDocs holds its slot.
SlotLayout(gameMode, max, occupied) ==
    LET teamSize == LayoutTeamSize(gameMode)
        totalTeams == max \div teamSize
    IN IF gameMode = "solo"
       THEN [i \in 1..max |->
               [slotIndex |-> i, teamId |-> NoTeam, disabled |-> i \in occupied]]
       ELSE [k \in 1..(totalTeams * teamSize) |->
               LET team == ((k - 1) \div teamSize) + 1
                   s == (k - 1) % teamSize
                   slotIndex == ((team - 1) * teamSize) + s + 1
               IN [slotIndex |-> slotIndex, teamId |-> team,
                   disabled |-> slotIndex \in occupied]]

\* buildAndShowSlotSelection on the page of user u: the buttons are rebuilt
\* from the tournament's maxParticipants and the participants read by getDocs.
BuildAndShowSlotSelection(u) ==
    /\ joinFlowState[u].tournamentId \in TIds
    /\ LET t == joinFlowState[u].tournamentId
           occupied == { p.slotIndex : p \in ParticipantsOf(t) }
       IN slotButtons' = [slotButtons EXCEPT ![u] =
             SlotLayout(joinFlowState[u].gameMode, tournaments[t].maxParticipants,
                        occupied)]
    /\ UNCHANGED << joinFlowState, handlers, loader, db, cachedBalance, joins, sims, adminVars >>

\* A click on the k-th slot button: joinFlowState.selectedSlot = { slotIndex,
\* teamId } of that button; a disabled button receives no click.
SelectSlot(u, k) ==
    /\ k \in DOMAIN slotButtons[u]
    /\ ~slotButtons[u][k].disabled
    /\ joinFlowState' = [joinFlowState EXCEPT ![u].selectedSlot =
                            [slotIndex |-> slotButtons[u][k].slotIndex,
                             teamId |-> slotButtons[u][k].teamId]]
    /\ UNCHANGED << slotButtons, handlers, loader, db, cachedBalance, joins, sims, adminVars >>

\* initUserListeners(userId), run on every login of the page of user u: the
\* store listeners are replaced and the click handlers attached.
InitUserListeners(u) ==
    /\ handlers' = [handlers EXCEPT ![u] = AttachHandlers(@)]
    /\ UNCHANGED << joinFlowState, slotButtons, loader, db, cachedBalance, joins, sims, adminVars >>

\* -------------------------------------------------------------------- join
\* step2Join click -> handleJoinTournamentWithSlot(tournamentId, entryFee,
\* ingameName, selectedSlot): the tournament and its fee come from a rendered
\* join button, the slot from one of the buttons 1..maxParticipants.
\* A handleJoinTournamentWithSlot invocation on tournament t that has returned
\* with result r.
JoinDone(t, r) ==
    [userId |-> NoUser, tournamentId |-> t, entryFee |-> 0, slotIndex |-> 0,
     pc |-> "done", result |-> r]

JoinStart(u, t, s) ==
    /\ t \in TIds
    /\ s \in 1..tournaments[t].maxParticipants
    /\ handlers[u].joinModal >= 1
    /\ joins' = joins \o [k \in 1..handlers[u].joinModal |->
                            [userId |-> u, tournamentId |-> t,
                             entryFee |-> tournaments[t].entryFee,
                             slotIndex |-> s, pc |-> "existing", result |-> "pending"]]
    /\ loader' = ShowLoader(u)
    /\ UNCHANGED << joinFlowState, slotButtons, handlers, db, cachedBalance, sims, adminVars >>

\* getDocs(existingQuery): the already-joined pre-check, outside the transaction.
JoinCheckExisting(i) ==
    /\ i \in 1..Len(joins)
    /\ joins[i].pc = "existing"
    /\ LET j == joins[i]
           existing == { p \in participants :
                           p.userId = j.userId /\ p.tournamentId = j.tournamentId }
       IN joins' = IF existing # {}
                   THEN [joins EXCEPT ![i] = JoinDone(j.tournamentId, "alreadyJoined")]
                   ELSE [joins EXCEPT ![i].pc = "slot"]
    /\ loader' = IF joins'[i].pc = "done" THEN HideLoader(joins[i].userId) ELSE loader
    /\ joinFlowState' = IF joins'[i].pc = "done" THEN ResetJoinFlowState(joins[i].userId)
                        ELSE joinFlowState
    /\ UNCHANGED << slotButtons, handlers, db, cachedBalance, sims, adminVars >>

\* getDocs(slotQuery): the slot pre-check, outside the transaction.
JoinCheckSlot(i) ==
    /\ i \in 1..Len(joins)
    /\ joins[i].pc = "slot"
    /\ LET j == joins[i]
           holders == { p \in participants :
                          p.tournamentId = j.tournamentId /\ p.slotIndex = j.slotIndex }
       IN joins' = IF holders # {}
                   THEN [joins EXCEPT ![i] = JoinDone(j.tournamentId, "slotTaken")]
                   ELSE [joins EXCEPT ![i].pc = "tx"]
    /\ loader' = IF joins'[i].pc = "done" THEN HideLoader(joins[i].userId) ELSE loader
    /\ joinFlowState' = IF joins'[i].pc = "done" THEN ResetJoinFlowState(joins[i].userId)
                        ELSE joinFlowState
    /\ UNCHANGED << slotButtons, handlers, db, cachedBalance, sims, adminVars >>

\* JoinTxError without the capacity check (current >= max).
JoinTxErrorNoCapacity(j) ==
    LET t == tournaments[j.tournamentId]
    IN IF users[j.userId].walletBalance < j.entryFee THEN "insufficientBalance"
       ELSE IF t.status # "Upcoming" THEN "closed"
       ELSE ""

\* JoinTxError without the status check (tData.status !== 'Upcoming').
JoinTxErrorNoStatus(j) ==
    LET t == tournaments[j.tournamentId]
    IN IF users[j.userId].walletBalance < j.entryFee THEN "insufficientBalance"
       ELSE IF t.currentParticipants >= t.maxParticipants THEN "full"
       ELSE ""

\* The error the transaction function throws, "" when every check passes.
JoinTxError(j) ==
    LET t == tournaments[j.tournamentId]
    IN IF users[j.userId].walletBalance < j.entryFee THEN "insufficientBalance"
       ELSE IF t.status # "Upcoming" THEN "closed"
       ELSE IF t.currentParticipants >= t.maxParticipants THEN "full"
       ELSE ""

\* The participant document the transaction sets (no seenByUser, no kills).
JoinParticipant(j) ==
    [id |-> NewParticipantId, userId |-> j.userId, tournamentId |-> j.tournamentId,
     slotIndex |-> j.slotIndex, status |-> "Joined", seenByUser |-> "unset",
     kills |-> NoKills]

\* JoinTransaction without the update of currentParticipants.
JoinTransactionNoCount(i) ==
    /\ i \in 1..Len(joins)
    /\ joins[i].pc = "tx"
    /\ LET j == joins[i]
           err == JoinTxError(j)
       IN IF err # ""
          THEN /\ joins' = [joins EXCEPT ![i] = JoinDone(j.tournamentId, err)]
               /\ UNCHANGED db
          ELSE /\ users' = [users EXCEPT ![j.userId].walletBalance = @ - j.entryFee]
               /\ participants' = participants \cup {JoinParticipant(j)}
               /\ transactions' = AddTx(transactions, j.userId, j.entryFee, "debit")
               /\ tournaments' = tournaments
               /\ joins' = [joins EXCEPT ![i] = JoinDone(j.tournamentId, "ok")]
    /\ loader' = HideLoader(joins[i].userId)
    /\ joinFlowState' = ResetJoinFlowState(joins[i].userId)
    /\ UNCHANGED << slotButtons, handlers, cachedBalance, sims, adminVars >>

\* runTransaction(db, ...): reads, checks and writes commit as one atomic step.
JoinTransaction(i) ==
    /\ i \in 1..Len(joins)
    /\ joins[i].pc = "tx"
    /\ LET j == joins[i]
           err == JoinTxError(j)
       IN IF err # ""
          THEN /\ joins' = [joins EXCEPT ![i] = JoinDone(j.tournamentId, err)]
               /\ UNCHANGED db
          ELSE /\ users' = [users EXCEPT ![j.userId].walletBalance = @ - j.entryFee]
               /\ participants' = participants \cup {JoinParticipant(j)}
               /\ transactions' = AddTx(transactions, j.userId, j.entryFee, "debit")
               /\ tournaments' = [tournaments EXCEPT
                                    ![j.tournamentId].currentParticipants = @ + 1]
               /\ joins' = [joins EXCEPT ![i] = JoinDone(j.tournamentId, "ok")]
    /\ loader' = HideLoader(joins[i].userId)
    /\ joinFlowState' = ResetJoinFlowState(joins[i].userId)
    /\ UNCHANGED << slotButtons, handlers, cachedBalance, sims, adminVars >>

\* MarkParticipantSeen writing the field on every participant record.
MarkParticipantSeenAll(participantId) ==
    /\ \E p \in participants : p.id = participantId
    /\ participants' = { [p EXCEPT !.seenByUser = "true"] : p \in participants }
    /\ loader' = HideLoader((CHOOSE p \in participants : p.id = participantId).userId)
    /\ UNCHANGED << joinFlowState, slotButtons, handlers, users, tournaments, transactions, cachedBalance, joins, sims, adminVars >>

\* markParticipantSeen: updateDoc(pRef, { seenByUser: true }) on an existing
\* participant document.
MarkParticipantSeen(participantId) ==
    /\ \E p \in participants : p.id = participantId
    /\ participants' = { IF p.id = participantId THEN [p EXCEPT !.seenByUser = "true"]
                         ELSE p : p \in participants }
    /\ loader' = HideLoader((CHOOSE p \in participants : p.id = participantId).userId)
    /\ UNCHANGED << joinFlowState, slotButtons, handlers, users, tournaments, transactions, cachedBalance, joins, sims, adminVars >>

\* ------------------------------------------------------------------- admin
\* The document handleCreateTournament builds from the form.
TournamentDoc(f) ==
    [status |-> "Upcoming", roomId |-> "", roomPassword |-> "",
     mode |-> f.mode,
     maxParticipants |-> IF f.maxParticipants = 0 THEN 100 ELSE f.maxParticipants,
     currentParticipants |-> 0,
     entryFee |-> f.entryFee, prizePool |-> f.prizePool,
     perKillEnabled |-> f.perKillEnabled,
     perKillPrize |-> IF f.perKillEnabled THEN f.perKillPrize ELSE 0]

\* CreateRejected without the squad check.
CreateRejectedDuoOnly(d) ==
    d.mode = "duo" /\ d.maxParticipants % 2 # 0

\* The duo/squad divisibility validation of handleCreateTournament.
CreateRejected(d) ==
    \/ d.mode = "duo" /\ d.maxParticipants % 2 # 0
    \/ d.mode = "squad" /\ d.maxParticipants % 4 # 0

\* handleCreateTournament: addDoc(collection(db, "tournaments"), formData).
CreateTournament(f) ==
    /\ ~CreateRejected(TournamentDoc(f))
    /\ tournaments' = Append(tournaments, TournamentDoc(f))
    /\ loader' = HideLoader("admin")
    /\ UNCHANGED << joinFlowState, slotButtons, handlers, users, participants, transactions, cachedBalance, joins, sims, adminVars >>

\* loadManageTournamentView: only the id changes synchronously; the cached
\* prize fields and the form keep their old content until the listeners fire.
LoadManageTournamentView(t) ==
    /\ t \in TIds
    /\ currentManagingTournament.id # t
    /\ currentManagingTournament' = [currentManagingTournament EXCEPT !.id = t]
    /\ UNCHANGED << joinFlowState, slotButtons, handlers, loader, db, cachedBalance, joins, sims, form, formDisabled, roomPending, settles >>

\* onSnapshot(tDocRef) callback of the tournament being managed.
TournamentSnapshot ==
    /\ currentManagingTournament.id # NoId
    /\ LET t == tournaments[currentManagingTournament.id]
       IN /\ currentManagingTournament' =
                [currentManagingTournament EXCEPT !.prizePool = t.prizePool,
                                                  !.perKillEnabled = t.perKillEnabled,
                                                  !.perKillPrize = t.perKillPrize]
          /\ formDisabled' = (t.status = "Completed")
    /\ UNCHANGED << joinFlowState, slotButtons, handlers, loader, db, cachedBalance, joins, sims, form, roomPending, settles >>

\* What a participants query snapshot keeps of each document.
SnapOf(t) == { [id |-> p.id, userId |-> p.userId] : p \in ParticipantsOf(t) }

\* onSnapshot(q) callback of the managed tournament's participants: the form
\* is rebuilt as kill inputs or as a winner select, by the cached per-kill flag.
ParticipantsSnapshot ==
    /\ currentManagingTournament.id # NoId
    /\ form' = [kind |-> IF currentManagingTournament.perKillEnabled THEN "kills" ELSE "select",
                parts |-> SnapOf(currentManagingTournament.id)]
    /\ UNCHANGED << joinFlowState, slotButtons, handlers, loader, db, cachedBalance, joins, sims, currentManagingTournament,
                    formDisabled, roomPending, settles >>

\* handleUpdateRoomDetails up to the updateDoc call.
RoomSubmit(r) ==
    /\ currentManagingTournament.id # NoId
    /\ roomPending' = roomPending \cup
          {[tournamentId |-> currentManagingTournament.id,
            roomId |-> r.roomId, roomPassword |-> r.roomPassword]}
    /\ loader' = ShowLoader("admin")
    /\ UNCHANGED << joinFlowState, slotButtons, handlers, db, cachedBalance, joins, sims, currentManagingTournament,
                    form, formDisabled, settles >>

\* RoomCommit without status: 'Live' in the update.
RoomCommitKeepStatus(w) ==
    /\ w \in roomPending
    /\ roomPending' = roomPending \ {w}
    /\ tournaments' = [tournaments EXCEPT ![w.tournamentId] =
                          [@ EXCEPT !.roomId = w.roomId, !.roomPassword = w.roomPassword]]
    /\ loader' = HideLoader("admin")
    /\ UNCHANGED << joinFlowState, slotButtons, handlers, users, participants, transactions, cachedBalance, joins, sims,
                    currentManagingTournament, form, formDisabled, settles >>

\* updateDoc(tDocRef, {roomId, roomPassword, status: 'Live'}) applied by the store.
RoomCommit(w) ==
    /\ w \in roomPending
    /\ roomPending' = roomPending \ {w}
    /\ tournaments' = [tournaments EXCEPT ![w.tournamentId] =
                          [@ EXCEPT !.roomId = w.roomId, !.roomPassword = w.roomPassword,
                                    !.status = "Live"]]
    /\ loader' = HideLoader("admin")
    /\ UNCHANGED << joinFlowState, slotButtons, handlers, users, participants, transactions, cachedBalance, joins, sims,
                    currentManagingTournament, form, formDisabled, settles >>

\* -------------------------------------------------------------- settlement
NoKillsMap == [x \in {} |-> 0]

\* A handleDeclareWinner invocation that has returned.
SettleDone ==
    [tournamentId |-> NoId, kind |-> "done", killsMap |-> NoKillsMap, winnerUserId |-> NoUser,
     prizePool |-> 0, pSnap |-> {}, pc |-> "done"]

\* killsMap[pid] || 0
KillsOf(killsMap, pid) == IF pid \in DOMAIN killsMap THEN killsMap[pid] ELSE 0

\* let maxKills = -1; pSnap.forEach(... if (k > maxKills) maxKills = k)
MaxKillsOf(killsMap, pSnap) ==
    IF pSnap = {} THEN -1
    ELSE CHOOSE m \in { KillsOf(killsMap, p.id) : p \in pSnap } :
            \A p \in pSnap : KillsOf(killsMap, p.id) <= m

\* PerKillStatus without the maxKills > 0 condition.
PerKillStatusAnyMax(kills, maxKills) ==
    IF kills = maxKills THEN "Winner" ELSE "Completed"

\* (maxKills > 0 && kills === maxKills) ? 'Winner' : 'Completed'
PerKillStatus(kills, maxKills) ==
    IF maxKills > 0 /\ kills = maxKills THEN "Winner" ELSE "Completed"

\* kills * (currentManagingTournament.perKillPrize || 0)
PerKillAmount(kills, perKillPrize) == kills * perKillPrize

RECURSIVE PerKillCredit(_, _, _, _)
\* The sum of the increment(amount) writes the batch holds for user u.
PerKillCredit(u, pSnap, killsMap, perKillPrize) ==
    IF pSnap = {} THEN 0
    ELSE LET p == CHOOSE x \in pSnap : TRUE
             rest == PerKillCredit(u, pSnap \ {p}, killsMap, perKillPrize)
         IN IF p.userId = u
            THEN PerKillAmount(KillsOf(killsMap, p.id), perKillPrize) + rest
            ELSE rest

RECURSIVE PerKillTxs(_, _, _, _)
\* The transactions collection after the batch's credit records (amount > 0 only).
PerKillTxs(txs, pSnap, killsMap, perKillPrize) ==
    IF pSnap = {} THEN txs
    ELSE LET p == CHOOSE x \in pSnap : TRUE
             amount == PerKillAmount(KillsOf(killsMap, p.id), perKillPrize)
             rest == PerKillTxs(txs, pSnap \ {p}, killsMap, perKillPrize)
         IN IF amount > 0 THEN AddTx(rest, p.userId, amount, "credit") ELSE rest

\* The per-kill branch is taken when the form holds kill inputs and the cached
\* flag is set.
PerKillFlow ==
    form.kind = "kills" /\ form.parts # {} /\ currentManagingTournament.perKillEnabled

\* handleDeclareWinner, per-kill flow, up to the getDocs call: the kill inputs
\* are validated and the tournament id is captured.
SettleSubmitPerKill(killsMap) ==
    /\ currentManagingTournament.id # NoId
    /\ ~formDisabled
    /\ PerKillFlow
    /\ settles' = Append(settles,
          [tournamentId |-> currentManagingTournament.id, kind |-> "perKill",
           killsMap |-> killsMap, winnerUserId |-> NoUser, prizePool |-> 0,
           pSnap |-> {}, pc |-> "getDocs"])
    /\ loader' = ShowLoader("admin")
    /\ UNCHANGED << joinFlowState, slotButtons, handlers, db, cachedBalance, joins, sims, currentManagingTournament,
                    form, formDisabled, roomPending >>

\* handleDeclareWinner, winner flow, up to the getDocs call: the winner comes
\* from the select, the prize from the cached currentManagingTournament.
SettleSubmitWinner(w) ==
    /\ currentManagingTournament.id # NoId
    /\ ~formDisabled
    /\ ~PerKillFlow
    /\ form.kind = "select"
    /\ w \in { p.userId : p \in form.parts }
    /\ settles' = Append(settles,
          [tournamentId |-> currentManagingTournament.id, kind |-> "winner",
           killsMap |-> NoKillsMap, winnerUserId |-> w,
           prizePool |-> currentManagingTournament.prizePool,
           pSnap |-> {}, pc |-> "getDocs"])
    /\ loader' = ShowLoader("admin")
    /\ UNCHANGED << joinFlowState, slotButtons, handlers, db, cachedBalance, joins, sims, currentManagingTournament,
                    form, formDisabled, roomPending >>

\* ------------------------------------------------------ kill input values
\* The value of a kill input is a sequence of characters.
DigitChars == << "0", "1", "2", "3", "4", "5", "6", "7", "8", "9" >>

IsDigit(c) == \E d \in 1..10 : DigitChars[d] = c

DigitValue(c) == (CHOOSE d \in 1..10 : DigitChars[d] = c) - 1

RECURSIVE LeadingDigits(_)
\* The longest prefix of s made of digits.
LeadingDigits(s) ==
    IF s = << >> \/ ~IsDigit(Head(s)) THEN << >>
    ELSE << Head(s) >> \o LeadingDigits(Tail(s))

RECURSIVE DigitsValue(_)
DigitsValue(s) ==
    IF s = << >> THEN 0
    ELSE 10 * DigitsValue(SubSeq(s, 1, Len(s) - 1)) + DigitValue(s[Len(s)])

\* parseInt(text, 10): an optional sign, then the leading digits; NaN when
\* there is none. Anything after the digits is ignored.
ParseInt(text) ==
    LET signed == text # << >> /\ Head(text) \in {"-", "+"}
        digits == LeadingDigits(IF signed THEN Tail(text) ELSE text)
    IN IF digits = << >> THEN [isNaN |-> TRUE, value |-> 0]
       ELSE [isNaN |-> FALSE,
             value |-> IF Head(text) = "-" THEN 0 - DigitsValue(digits)
                       ELSE DigitsValue(digits)]

RECURSIVE NumberText(_)
\* The decimal text of the natural number n.
NumberText(n) ==
    IF n < 10 THEN << DigitChars[n + 1] >>
    ELSE NumberText(n \div 10) \o << DigitChars[(n % 10) + 1] >>

\* Values a kill input can hold: empty, a negative number, a fraction, the
\* counts 0..MaxKillInput, and a text without digits.
KillTexts ==
    { << >>, << "-", "1" >>, << "1", ".", "5" >>, << "x" >> }
       \cup { NumberText(n) : n \in 0..MaxKillInput }

\* KillTextError without the k < 0 test.
KillTextErrorAnySign(text) ==
    IF text = << >> THEN "Enter kills for all participants."
    ELSE IF ParseInt(text).isNaN THEN "Kills must be non-negative integers."
    ELSE ""

\* The checks of the validation loop on one kill input.
KillTextError(text) ==
    IF text = << >> THEN "Enter kills for all participants."
    ELSE IF ParseInt(text).isNaN \/ ParseInt(text).value < 0
         THEN "Kills must be non-negative integers."
    ELSE ""

\* A handleDeclareWinner invocation that returned from the validation loop.
SettleRejected == [SettleDone EXCEPT !.kind = "invalidKills"]

\* handleDeclareWinner, per-kill flow, from the raw values of the kill inputs:
\* the first invalid input ends the handler before anything is written.
SettleSubmitKillTexts(texts) ==
    /\ currentManagingTournament.id # NoId
    /\ ~formDisabled
    /\ PerKillFlow
    /\ IF \E pid \in DOMAIN texts : KillTextError(texts[pid]) # ""
       THEN /\ settles' = Append(settles, SettleRejected)
            /\ UNCHANGED << joinFlowState, slotButtons, handlers, loader, db, cachedBalance, joins, sims, currentManagingTournament,
                            form, formDisabled, roomPending >>
       ELSE SettleSubmitPerKill([pid \in DOMAIN texts |-> ParseInt(texts[pid]).value])

\* getDocs(query(participants, where tournamentId == id)) answered by the store.
SettleGetDocs(i) ==
    /\ i \in 1..Len(settles)
    /\ settles[i].pc = "getDocs"
    /\ settles' = [settles EXCEPT ![i].pSnap = SnapOf(settles[i].tournamentId),
                                  ![i].pc = "commit"]
    /\ UNCHANGED << joinFlowState, slotButtons, handlers, loader, db, cachedBalance, joins, sims, currentManagingTournament,
                    form, formDisabled, roomPending >>

\* The participants collection after the batch's updates of the documents in pSnap.
SettledParticipants(s, maxKills) ==
    { IF [id |-> p.id, userId |-> p.userId] \in s.pSnap
      THEN IF s.kind = "perKill"
           THEN [p EXCEPT !.status = PerKillStatus(KillsOf(s.killsMap, p.id), maxKills),
                          !.seenByUser = "false",
                          !.kills = KillsOf(s.killsMap, p.id)]
           ELSE [p EXCEPT !.status = IF p.userId = s.winnerUserId
                                     THEN "Winner" ELSE "Completed",
                          !.seenByUser = "false"]
      ELSE p : p \in participants }

\* SettledTournament without the status update.
SettledTournamentUntouched(t) == t

\* The status the batch writes to the tournament document.
SettledTournament(t) == [t EXCEPT !.status = "Completed"]

\* The rest of handleDeclareWinner after getDocs: the batch is filled (the
\* per-kill prize is read from the cache here) and batch.commit() applies it.
SettleCommit(i) ==
    /\ i \in 1..Len(settles)
    /\ settles[i].pc = "commit"
    /\ LET s == settles[i]
           prize == currentManagingTournament.perKillPrize
           maxKills == MaxKillsOf(s.killsMap, s.pSnap)
       IN /\ tournaments' = [tournaments EXCEPT
                               ![s.tournamentId] = SettledTournament(@)]
          /\ participants' = SettledParticipants(s, maxKills)
          /\ IF s.kind = "perKill"
             THEN /\ users' = [u \in Users |->
                                 [users[u] EXCEPT !.walletBalance =
                                     @ + PerKillCredit(u, s.pSnap, s.killsMap, prize)]]
                  /\ transactions' = PerKillTxs(transactions, s.pSnap, s.killsMap, prize)
             ELSE /\ users' = [users EXCEPT ![s.winnerUserId].walletBalance =
                                              @ + s.prizePool]
                  /\ transactions' = AddTx(transactions, s.winnerUserId,
                                           s.prizePool, "credit")
    /\ settles' = [settles EXCEPT ![i] = SettleDone]
    /\ loader' = HideLoader("admin")
    /\ UNCHANGED << joinFlowState, slotButtons, handlers, cachedBalance, joins, sims, currentManagingTournament,
                    form, formDisabled, roomPending >>

\* A handleDeclareWinner invocation whose batch.commit() was rejected.
SettleFailed == [SettleDone EXCEPT !.kind = "failed"]

\* SettleCommitFails without the finally block: the loader is left as it was.
SettleCommitFailsLoaderStays(i) ==
    /\ i \in 1..Len(settles)
    /\ settles[i].pc = "commit"
    /\ settles' = [settles EXCEPT ![i] = SettleFailed]
    /\ UNCHANGED << loader, joinFlowState, slotButtons, handlers, db, cachedBalance, joins, sims,
                    currentManagingTournament, form, formDisabled, roomPending >>

\* batch.commit() rejects: the store applies none of the batch's writes and
\* the catch block reports the error.
SettleCommitFails(i) ==
    /\ i \in 1..Len(settles)
    /\ settles[i].pc = "commit"
    /\ settles' = [settles EXCEPT ![i] = SettleFailed]
    /\ loader' = HideLoader("admin")
    /\ UNCHANGED << joinFlowState, slotButtons, handlers, db, cachedBalance, joins, sims, currentManagingTournament,
                    form, formDisabled, roomPending >>

\* ----------------------------------------------------------- specification
\* The stores and module state before anything has happened: signup has
\* created the user documents, no tournament exists.
InitEmpty ==
    /\ users = [u \in Users |-> [walletBalance |-> SignupBalance]]
    /\ tournaments = << >>
    /\ participants = {}
    /\ transactions = EmptyBag
    /\ cachedBalance = [u \in Users |-> SignupBalance]
    /\ joins = << >>
    /\ sims = << >>
    /\ currentManagingTournament =
          [id |-> NoId, prizePool |-> 0, perKillEnabled |-> FALSE, perKillPrize |-> 0]
    /\ form = [kind |-> "empty", parts |-> {}]
    /\ formDisabled = FALSE
    /\ roomPending = {}
    /\ settles = << >>
    /\ loader = [s \in Sessions |-> FALSE]
    /\ joinFlowState = [u \in Users |-> NoJoinFlow]
    /\ slotButtons = [u \in Users |-> << >>]
    /\ handlers = [u \in Users |-> AttachHandlers(NoHandlers)]

\* Every user page has run initUserListeners once.
LoggedInOnce == handlers = [u \in Users |-> AttachHandlers(NoHandlers)]

\* No operation in flight, the admin module state as declared.
Idle ==
    /\ joins = << >>
    /\ sims = << >>
    /\ currentManagingTournament =
          [id |-> NoId, prizePool |-> 0, perKillEnabled |-> FALSE, perKillPrize |-> 0]
    /\ form = [kind |-> "empty", parts |-> {}]
    /\ formDisabled = FALSE
    /\ roomPending = {}
    /\ settles = << >>
    /\ loader = [s \in Sessions |-> FALSE]
    /\ joinFlowState = [u \in Users |-> NoJoinFlow]
    /\ slotButtons = [u \in Users |-> << >>]

\* The state the user-session behaviours start from: the admin has created a
\* one-place and a two-place tournament, and every user has made one simulated
\* deposit that the wallet listener has delivered.
Init ==
    /\ users = [u \in Users |-> [walletBalance |-> SignupBalance + DepositAmount]]
    /\ tournaments = << TournamentDoc(SmallForm), TournamentDoc(PerKillForm) >>
    /\ participants = {}
    /\ transactions = SetToBag({ TxRecord(u, DepositAmount, "credit") : u \in Users })
    /\ cachedBalance = [u \in Users |-> SignupBalance + DepositAmount]
    /\ Idle
    /\ LoggedInOnce

\* The state the admin behaviours start from: one two-place tournament
\* (winner-take-all or per-kill), every user has deposited once, and u1 has
\* joined the tournament in slot 1.
InitAdmin ==
    /\ users = [u \in Users |->
                  [walletBalance |-> IF u = "u1"
                                     THEN SignupBalance + DepositAmount - WinnerForm.entryFee
                                     ELSE SignupBalance + DepositAmount]]
    /\ \E f \in {WinnerForm, PerKillForm} :
          tournaments = << [TournamentDoc(f) EXCEPT !.currentParticipants = 1] >>
    /\ participants =
          { [id |-> 1, userId |-> "u1", tournamentId |-> 1, slotIndex |-> 1,
             status |-> "Joined", seenByUser |-> "unset", kills |-> NoKills] }
    /\ transactions =
          SetToBag({ TxRecord(u, DepositAmount, "credit") : u \in Users }
                   \cup { TxRecord("u1", WinnerForm.entryFee, "debit") })
    /\ cachedBalance = [u \in Users |-> users[u].walletBalance]
    /\ Idle
    /\ LoggedInOnce

\* The state the two-tournament admin behaviours start from: a full per-kill
\* tournament joined by u1 and u2, and a second tournament (winner-take-all, or
\* per-kill with another prize) joined by u2 only; u2 has deposited twice.
InitManage ==
    /\ users = [u \in Users |->
                  [walletBalance |-> IF u = "u1"
                                     THEN SignupBalance + DepositAmount - PerKillForm.entryFee
                                     ELSE SignupBalance + 2 * DepositAmount
                                          - PerKillForm.entryFee - WinnerForm.entryFee]]
    /\ \E f \in {WinnerForm, CheapKillForm} :
          tournaments = << [TournamentDoc(PerKillForm) EXCEPT !.currentParticipants = 2],
                           [TournamentDoc(f) EXCEPT !.currentParticipants = 1] >>
    /\ participants =
          { [id |-> 1, userId |-> "u1", tournamentId |-> 1, slotIndex |-> 1,
             status |-> "Joined", seenByUser |-> "unset", kills |-> NoKills],
            [id |-> 2, userId |-> "u2", tournamentId |-> 1, slotIndex |-> 2,
             status |-> "Joined", seenByUser |-> "unset", kills |-> NoKills],
            [id |-> 3, userId |-> "u2", tournamentId |-> 2, slotIndex |-> 1,
             status |-> "Joined", seenByUser |-> "unset", kills |-> NoKills] }
    /\ transactions =
          TxRecord("u1", DepositAmount, "credit") :> 1
          @@ TxRecord("u2", DepositAmount, "credit") :> 2
          @@ TxRecord("u1", PerKillForm.entryFee, "debit") :> 1
          @@ TxRecord("u2", PerKillForm.entryFee, "debit") :> 2
    /\ cachedBalance = [u \in Users |-> users[u].walletBalance]
    /\ Idle
    /\ LoggedInOnce

KillsInputs == [ { p.id : p \in form.parts } -> 0..MaxKillInput ]

UserNext(maxJoins, maxSims) ==
    \/ \E u \in Users : WalletSnapshot(u)
    \/ /\ Len(sims) < maxSims
       /\ \E u \in Users, type \in {"credit", "debit"} : SimSubmit(u, type)
    \/ \E i \in 1..Len(sims) : SimCommit(i)
    \/ /\ Len(joins) < maxJoins
       /\ \E u \in Users, t \in TIds : \E s \in 1..tournaments[t].maxParticipants :
             JoinStart(u, t, s)
    \/ \E i \in 1..Len(joins) : JoinCheckExisting(i)
    \/ \E i \in 1..Len(joins) : JoinCheckSlot(i)
    \/ \E i \in 1..Len(joins) : JoinTransaction(i)

AdminNext ==
    \/ \E t \in TIds : LoadManageTournamentView(t)
    \/ TournamentSnapshot
    \/ ParticipantsSnapshot
    \/ \E r \in RoomInputs : RoomSubmit(r)
    \/ \E w \in roomPending : RoomCommit(w)
    \/ /\ Len(settles) < MaxSettles
       /\ \E k \in KillsInputs : SettleSubmitPerKill(k)
    \/ /\ Len(settles) < MaxSettles
       /\ \E w \in Users : SettleSubmitWinner(w)
    \/ \E i \in 1..Len(settles) : SettleGetDocs(i)
    \/ \E i \in 1..Len(settles) : SettleCommit(i)

\* The user sessions alone.
Next == UserNext(MaxJoins, MaxSims)

Spec == Init /\ [][Next]_vars

\* The admin session together with joining users.
NextAdmin ==
    \/ AdminNext
    \/ /\ Len(joins) < MaxAdminJoins
       /\ \E u \in Users, t \in TIds : \E s \in 1..tournaments[t].maxParticipants :
             JoinStart(u, t, s)
    \/ \E i \in 1..Len(joins) : JoinCheckExisting(i)
    \/ \E i \in 1..Len(joins) : JoinCheckSlot(i)
    \/ \E i \in 1..Len(joins) : JoinTransaction(i)

SpecAdmin == InitAdmin /\ [][NextAdmin]_vars

\* The admin session opening and settling two tournaments, no user acting.
NextManage ==
    \/ \E t \in TIds : LoadManageTournamentView(t)
    \/ TournamentSnapshot
    \/ ParticipantsSnapshot
    \/ /\ Len(settles) < MaxManageSettles
       /\ \E k \in KillsInputs : SettleSubmitPerKill(k)
    \/ /\ Len(settles) < MaxManageSettles
       /\ \E w \in Users : SettleSubmitWinner(w)
    \/ \E i \in 1..Len(settles) : SettleGetDocs(i)
    \/ \E i \in 1..Len(settles) : SettleCommit(i)

SpecManage == InitManage /\ [][NextManage]_vars

\* Joins, simulated transactions and settlements started so far.
OpsStarted == Len(joins) + Len(sims) + Len(settles)

\* The user sessions and the admin's settlements together: every operation
\* that writes a wallet, at most MaxWalletOps of them in a behaviour.
NextWallet ==
    \/ \E u \in Users : WalletSnapshot(u)
    \/ /\ OpsStarted < MaxWalletOps
       /\ \E u \in Users, type \in {"credit", "debit"} : SimSubmit(u, type)
    \/ \E i \in 1..Len(sims) : SimCommit(i)
    \/ /\ OpsStarted < MaxWalletOps
       /\ \E u \in Users, t \in TIds : \E s \in 1..tournaments[t].maxParticipants :
             JoinStart(u, t, s)
    \/ \E i \in 1..Len(joins) : JoinCheckExisting(i)
    \/ \E i \in 1..Len(joins) : JoinCheckSlot(i)
    \/ \E i \in 1..Len(joins) : JoinTransaction(i)
    \/ \E t \in TIds : LoadManageTournamentView(t)
    \/ TournamentSnapshot
    \/ ParticipantsSnapshot
    \/ /\ OpsStarted < MaxWalletOps
       /\ \E k \in KillsInputs : SettleSubmitPerKill(k)
    \/ /\ OpsStarted < MaxWalletOps
       /\ \E w \in Users : SettleSubmitWinner(w)
    \/ \E i \in 1..Len(settles) : SettleGetDocs(i)
    \/ \E i \in 1..Len(settles) : SettleCommit(i)

SpecWallet == InitAdmin /\ [][NextWallet]_vars

\* A joining user against the admin's room update and one settlement.
NextClose ==
    \/ \E t \in TIds : LoadManageTournamentView(t)
    \/ TournamentSnapshot
    \/ ParticipantsSnapshot
    \/ \E r \in RoomInputs : RoomSubmit(r)
    \/ \E w \in roomPending : RoomCommit(w)
    \/ /\ Len(settles) < MaxManageSettles
       /\ \E k \in KillsInputs : SettleSubmitPerKill(k)
    \/ /\ Len(settles) < MaxManageSettles
       /\ \E w \in Users : SettleSubmitWinner(w)
    \/ \E i \in 1..Len(settles) : SettleGetDocs(i)
    \/ \E i \in 1..Len(settles) : SettleCommit(i)
    \/ /\ Len(joins) < MaxAdminJoins
       /\ \E u \in Users, t \in TIds : \E s \in 1..tournaments[t].maxParticipants :
             JoinStart(u, t, s)
    \/ \E i \in 1..Len(joins) : JoinCheckExisting(i)
    \/ \E i \in 1..Len(joins) : JoinCheckSlot(i)
    \/ \E i \in 1..Len(joins) : JoinTransaction(i)

SpecClose == InitAdmin /\ [][NextClose]_vars

\* Values the admin can submit in the create-tournament form: every mode of
\* the t-mode select with every participant limit up to the bound (an empty or
\* zero limit included).
CreateForms ==
    [mode : {"solo", "duo", "squad"}, maxParticipants : 0..MaxParticipantsInput,
     entryFee : {50}, prizePool : {70}, perKillEnabled : {FALSE}, perKillPrize : {0}]

\* The admin creating tournaments.
NextCreate ==
    /\ Len(tournaments) < MaxTournaments
    /\ \E f \in CreateForms : CreateTournament(f)

SpecCreate == InitEmpty /\ [][NextCreate]_vars

KillTextInputs == [ { p.id : p \in form.parts } -> KillTexts ]

\* The admin settling from the raw values typed into the kill inputs.
NextKills ==
    \/ \E t \in TIds : LoadManageTournamentView(t)
    \/ TournamentSnapshot
    \/ ParticipantsSnapshot
    \/ /\ Len(settles) < MaxManageSettles
       /\ \E texts \in KillTextInputs : SettleSubmitKillTexts(texts)
    \/ /\ Len(settles) < MaxManageSettles
       /\ \E w \in Users : SettleSubmitWinner(w)
    \/ \E i \in 1..Len(settles) : SettleGetDocs(i)
    \/ \E i \in 1..Len(settles) : SettleCommit(i)

SpecKills == InitManage /\ [][NextKills]_vars

\* The admin settling two tournaments against a store that may reject a commit.
NextBatch ==
    \/ NextManage
    \/ \E i \in 1..Len(settles) : SettleCommitFails(i)

SpecBatch == InitManage /\ [][NextBatch]_vars

\* The admin settling while users acknowledge their results.
NextSeen ==
    \/ NextManage
    \/ \E p \in participants : MarkParticipantSeen(p.id)

SpecSeen == InitManage /\ [][NextSeen]_vars

\* The state the login behaviours start from: the tournaments and deposits of
\* Init, user pages freshly loaded, nobody logged in yet.
InitLogin ==
    /\ users = [u \in Users |-> [walletBalance |-> SignupBalance + DepositAmount]]
    /\ tournaments = << TournamentDoc(SmallForm), TournamentDoc(PerKillForm) >>
    /\ participants = {}
    /\ transactions = SetToBag({ TxRecord(u, DepositAmount, "credit") : u \in Users })
    /\ cachedBalance = [u \in Users |-> SignupBalance + DepositAmount]
    /\ Idle
    /\ handlers = [u \in Users |-> NoHandlers]

\* Users logging in (again) on their page and clicking the final Join button.
NextLogin ==
    \/ \E u \in Users : handlers[u].joinModal < MaxLogins /\ InitUserListeners(u)
    \/ \E u \in Users, t \in TIds : \E s \in 1..tournaments[t].maxParticipants :
          /\ Len(joins) + handlers[u].joinModal <= MaxLoginJoins
          /\ JoinStart(u, t, s)
    \/ \E i \in 1..Len(joins) : JoinCheckExisting(i)
    \/ \E i \in 1..Len(joins) : JoinCheckSlot(i)
    \/ \E i \in 1..Len(joins) : JoinTransaction(i)

SpecLogin == InitLogin /\ [][NextLogin]_vars

\* Tournaments the create form accepts, with every mode and every participant
\* limit up to the bound.
LayoutForms ==
    { f \in [mode : {"solo", "duo", "squad"}, maxParticipants : 1..MaxLayoutSlots,
             entryFee : {50}, prizePool : {70}, perKillEnabled : {FALSE},
             perKillPrize : {0}] : ~CreateRejected(TournamentDoc(f)) }

\* The state the slot-selection behaviours start from: one accepted tournament
\* of any mode and limit, every user has deposited once.
InitLayout ==
    /\ users = [u \in Users |-> [walletBalance |-> SignupBalance + DepositAmount]]
    /\ \E f \in LayoutForms : tournaments = << TournamentDoc(f) >>
    /\ participants = {}
    /\ transactions = SetToBag({ TxRecord(u, DepositAmount, "credit") : u \in Users })
    /\ cachedBalance = [u \in Users |-> SignupBalance + DepositAmount]
    /\ Idle
    /\ LoggedInOnce

\* Users walking through the join modal: open it on the tournament, build the
\* slot buttons, pick one, and click the final Join button.
NextLayout ==
    \/ \E u \in Users, t \in TIds : StartJoinFlow(u, t)
    \/ \E u \in Users : BuildAndShowSlotSelection(u)
    \/ \E u \in Users : \E k \in DOMAIN slotButtons[u] : SelectSlot(u, k)
    \/ /\ Len(joins) < MaxLayoutJoins
       /\ \E u \in Users :
             /\ joinFlowState[u].selectedSlot.slotIndex # 0
             /\ JoinStart(u, joinFlowState[u].tournamentId,
                          joinFlowState[u].selectedSlot.slotIndex)
    \/ \E i \in 1..Len(joins) : JoinCheckExisting(i)
    \/ \E i \in 1..Len(joins) : JoinCheckSlot(i)
    \/ \E i \in 1..Len(joins) : JoinTransaction(i)

SpecLayout == InitLayout /\ [][NextLayout]_vars

\* A joining user against one settlement (one kill typed for each participant
\* in the per-kill flow), with a store that may reject the settlement's commit.
NextLive ==
    \/ \E t \in TIds : LoadManageTournamentView(t)
    \/ TournamentSnapshot
    \/ ParticipantsSnapshot
    \/ /\ Len(settles) < MaxManageSettles
       /\ SettleSubmitPerKill([pid \in { p.id : p \in form.parts } |-> 1])
    \/ /\ Len(settles) < MaxManageSettles
       /\ \E w \in Users : SettleSubmitWinner(w)
    \/ \E i \in 1..Len(settles) : SettleGetDocs(i)
    \/ \E i \in 1..Len(settles) : SettleCommit(i)
    \/ \E i \in 1..Len(settles) : SettleCommitFails(i)
    \/ /\ Len(joins) < MaxAdminJoins
       /\ \E u \in Users, t \in TIds : \E s \in 1..tournaments[t].maxParticipants :
             JoinStart(u, t, s)
    \/ \E i \in 1..Len(joins) : JoinCheckExisting(i)
    \/ \E i \in 1..Len(joins) : JoinCheckSlot(i)
    \/ \E i \in 1..Len(joins) : JoinTransaction(i)

\* The store eventually answers every request: each getDocs, runTransaction
\* and batch.commit that is pending eventually resolves or rejects.
FairLive ==
    /\ \A i \in 1..MaxAdminJoins :
          /\ WF_vars(JoinCheckExisting(i))
          /\ WF_vars(JoinCheckSlot(i))
          /\ WF_vars(JoinTransaction(i))
    /\ \A i \in 1..MaxManageSettles :
          /\ WF_vars(SettleGetDocs(i))
          /\ WF_vars(SettleCommit(i) \/ SettleCommitFails(i))

SpecLive == InitAdmin /\ [][NextLive]_vars /\ FairLive

\* ------------------------------------------------------------------ claims
\* Join i returns in this step.
JoinReturns(i) ==
    /\ i \in 1..Len(joins)
    /\ joins[i].pc # "done"
    /\ joins'[i].pc = "done"

\* Join i runs its transaction in this step.
JoinCommits(i) ==
    /\ i \in 1..Len(joins)
    /\ joins[i].pc = "tx"
    /\ joins'[i].pc = "done"

\* Settlement i commits its batch in this step.
SettleCommits(i) ==
    /\ i \in 1..Len(settles)
    /\ settles[i].pc = "commit"
    /\ settles'[i].pc = "done"

\* C1: no two participant records of one tournament that belong to different
\* users hold the same slot index.
NoDoubleOccupancy ==
    \A p1, p2 \in participants :
        (p1.id # p2.id /\ p1.userId # p2.userId /\ p1.tournamentId = p2.tournamentId)
            => p1.slotIndex # p2.slotIndex

\* C2: every tournament's currentParticipants stays at or below its
\* maxParticipants, whatever joins race for the last free place.
CapacityInvariant ==
    \A t \in TIds : tournaments[t].currentParticipants <= tournaments[t].maxParticipants

\* A tournament is full and a join that had passed both pre-checks was turned
\* away by the capacity check of its transaction.
CapacityWitness ==
    \E t \in TIds :
        /\ tournaments[t].currentParticipants = tournaments[t].maxParticipants
        /\ \E i \in 1..Len(joins) : joins[i] = JoinDone(t, "full")

\* C3: at most one participant record exists for each (user, tournament) pair.
AtMostOneJoin ==
    \A p1, p2 \in participants :
        (p1.userId = p2.userId /\ p1.tournamentId = p2.tournamentId) => p1.id = p2.id

\* C4: no user's walletBalance is ever below 0.
WalletNeverNegative ==
    \A u \in Users : users[u].walletBalance >= 0

\* One of the six join preconditions is violated in the store for join j.
JoinPreconditionFails(j) ==
    LET t == tournaments[j.tournamentId]
    IN \/ j.tournamentId \notin TIds
       \/ t.status # "Upcoming"
       \/ t.currentParticipants >= t.maxParticipants
       \/ \E p \in participants : p.userId = j.userId /\ p.tournamentId = j.tournamentId
       \/ \E p \in participants : p.tournamentId = j.tournamentId /\ p.slotIndex = j.slotIndex
       \/ users[j.userId].walletBalance < j.entryFee

\* C5: a join that returns while one of its preconditions is violated leaves
\* users, tournaments, participants and transactions unchanged.
FailedJoinChangesNothing ==
    [][ \A i \in 1..Len(joins) :
           (JoinReturns(i) /\ JoinPreconditionFails(joins[i])) => UNCHANGED db ]_vars

\* C6: a settlement that commits on a tournament whose status is already
\* Completed leaves every document unchanged (so prizes are credited once).
ResettlementBlocked ==
    [][ \A i \in 1..Len(settles) :
           (SettleCommits(i) /\ tournaments[settles[i].tournamentId].status = "Completed")
              => UNCHANGED db ]_vars

\* C7: in a Completed tournament every participant is Winner or Completed.
CompletedHasNoJoined ==
    \A t \in TIds :
        tournaments[t].status = "Completed"
            => \A p \in ParticipantsOf(t) : p.status \in {"Winner", "Completed"}

StatusRank(st) == IF st = "Upcoming" THEN 0 ELSE IF st = "Live" THEN 1 ELSE 2

\* C8: no step moves a tournament's status backward in Upcoming -> Live -> Completed.
StatusNeverBackward ==
    [][ \A t \in TIds :
           StatusRank(tournaments'[t].status) >= StatusRank(tournaments[t].status) ]_vars

\* C9: a join whose transaction runs when another user's participant already
\* holds the chosen slot changes no document.
SlotRaceLoserChangesNothing ==
    [][ \A i \in 1..Len(joins) :
           ( /\ JoinCommits(i)
             /\ \E p \in participants : /\ p.tournamentId = joins[i].tournamentId
                                        /\ p.slotIndex = joins[i].slotIndex
                                        /\ p.userId # joins[i].userId )
              => UNCHANGED db ]_vars

\* C10: a winner-flow settlement of a winner-take-all tournament t with winner w
\* credits w exactly t's prize pool, records one credit of that amount, leaves
\* the other wallets alone, completes t, and marks w's participant Winner and
\* all other participants of t Completed, each with seenByUser = false.
WinnerTakeAllEffect ==
    [][ \A i \in 1..Len(settles) :
           ( /\ SettleCommits(i)
             /\ settles[i].kind = "winner"
             /\ ~tournaments[settles[i].tournamentId].perKillEnabled )
              => LET t == settles[i].tournamentId
                     w == settles[i].winnerUserId
                     prize == tournaments[t].prizePool
                 IN /\ users'[w].walletBalance = users[w].walletBalance + prize
                    /\ \A u \in Users \ {w} : users'[u] = users[u]
                    /\ transactions' = AddTx(transactions, w, prize, "credit")
                    /\ tournaments'[t].status = "Completed"
                    /\ \A p \in participants' :
                          p.tournamentId = t =>
                             /\ p.status = IF p.userId = w THEN "Winner" ELSE "Completed"
                             /\ p.seenByUser = "false" ]_vars

\* Settlement i is a per-kill settlement of a per-kill tournament whose kills
\* map has exactly one entry for each participant of that tournament.
PerKillSettles(i) ==
    /\ SettleCommits(i)
    /\ settles[i].kind = "perKill"
    /\ tournaments[settles[i].tournamentId].perKillEnabled
    /\ DOMAIN settles[i].killsMap = { p.id : p \in ParticipantsOf(settles[i].tournamentId) }

RECURSIVE KillsTotal(_, _, _)
\* The kills entered for the participants in ps that belong to user u.
KillsTotal(u, ps, killsMap) ==
    IF ps = {} THEN 0
    ELSE LET p == CHOOSE x \in ps : TRUE
         IN (IF p.userId = u THEN killsMap[p.id] ELSE 0) + KillsTotal(u, ps \ {p}, killsMap)

\* C11: a per-kill settlement of tournament t with a kills assignment over t's
\* participants credits each user kills * t.perKillPrize for their participants,
\* and marks a participant Winner exactly when the maximum kill count is
\* positive and the participant's kills equal it, Completed otherwise.
PerKillPayout ==
    [][ \A i \in 1..Len(settles) :
           PerKillSettles(i) =>
              LET t == settles[i].tournamentId
                  k == settles[i].killsMap
                  ps == ParticipantsOf(t)
              IN /\ \A u \in Users :
                       users'[u].walletBalance =
                          users[u].walletBalance
                             + KillsTotal(u, ps, k) * tournaments[t].perKillPrize
                 /\ \A q \in participants' :
                       q.tournamentId = t =>
                          q.status = IF /\ k[q.id] > 0
                                        /\ \A p \in ps : k[p.id] <= k[q.id]
                                     THEN "Winner" ELSE "Completed" ]_vars

\* The payout settlement s computes for the participant p of its snapshot.
PayoutOf(s, p) ==
    PerKillAmount(KillsOf(s.killsMap, p.id), currentManagingTournament.perKillPrize)

\* C12: in a per-kill settlement a user whose participants all have payout 0
\* keeps their wallet and gains no transaction record, and no record of amount
\* 0 is added; when every participant has zero kills no wallet and no
\* transaction changes, every participant of the snapshot becomes Completed
\* (none Winner), and the tournament becomes Completed.
ZeroPayoutUnrecorded ==
    [][ \A i \in 1..Len(settles) :
           (SettleCommits(i) /\ settles[i].kind = "perKill") =>
              LET s == settles[i]
                  t == s.tournamentId
              IN /\ \A u \in Users :
                       (\A p \in s.pSnap : p.userId = u => PayoutOf(s, p) = 0)
                          => /\ users'[u] = users[u]
                             /\ \A r \in BagToSet(transactions') :
                                   r.userId = u =>
                                      CopiesIn(r, transactions') = CopiesIn(r, transactions)
                 /\ \A r \in BagToSet(transactions') :
                       r.amount = 0 => CopiesIn(r, transactions') = CopiesIn(r, transactions)
                 /\ (\A p \in s.pSnap : KillsOf(s.killsMap, p.id) = 0)
                       => /\ users' = users
                          /\ transactions' = transactions
                          /\ \A q \in participants' :
                                (\E p \in s.pSnap : p.id = q.id) => q.status = "Completed"
                 /\ tournaments'[t].status = "Completed" ]_vars

\* A per-kill settlement with zero kills for both participants has completed
\* tournament 1: both are Completed and no credit was recorded.
ZeroKillsWitness ==
    /\ tournaments[1].status = "Completed"
    /\ Cardinality(ParticipantsOf(1)) = 2
    /\ \A p \in ParticipantsOf(1) : p.kills = 0 /\ p.status = "Completed"
    /\ \A r \in BagToSet(transactions) : r.type = "credit" => r.amount = DepositAmount

\* C13: a per-kill settlement whose kills map lacks an entry for a participant
\* its getDocs read returned changes no document.
IncompleteKillsRejected ==
    [][ \A i \in 1..Len(settles) :
           ( /\ SettleCommits(i)
             /\ settles[i].kind = "perKill"
             /\ \E p \in settles[i].pSnap : p.id \notin DOMAIN settles[i].killsMap )
              => UNCHANGED db ]_vars

RECURSIVE SignedSum(_, _, _)
\* Credits minus debits of user u over the records rs of the bag txs.
SignedSum(u, rs, txs) ==
    IF rs = {} THEN 0
    ELSE LET r == CHOOSE x \in rs : TRUE
             signed == IF r.userId # u THEN 0
                       ELSE IF r.type = "credit" THEN r.amount ELSE 0 - r.amount
         IN signed * CopiesIn(r, txs) + SignedSum(u, rs \ {r}, txs)

\* C14: every user's walletBalance equals the signup balance plus the sum of
\* their credit transactions minus the sum of their debit transactions.
WalletReconciles ==
    \A u \in Users :
        users[u].walletBalance =
            SignupBalance + SignedSum(u, BagToSet(transactions), transactions)

\* u2 has paid an entry fee and withdrawn (two debits of 50, the fee and the
\* withdrawal amount being equal) and has been credited the prize pool by a
\* winner-flow settlement.
WalletWitness ==
    /\ CopiesIn(TxRecord("u2", WithdrawAmount, "debit"), transactions) >= 2
    /\ CopiesIn(TxRecord("u2", WinnerForm.prizePool, "credit"), transactions) >= 1
    /\ \E p \in participants : p.userId = "u2"
    /\ \E i \in 1..Len(sims) : sims[i] = SimDone("ok")

\* C15: a participant is Winner or Completed only in a Completed tournament;
\* every participant of an Upcoming or Live tournament is Joined.
SettledOnlyWhenCompleted ==
    \A p \in participants :
        p.status \in {"Winner", "Completed"}
            => tournaments[p.tournamentId].status = "Completed"

\* C16: a step that creates a participant record or debits an entry fee for a
\* join does so only for a tournament whose status is Upcoming in the state the
\* join commits in.
JoinOnlyWhenUpcoming ==
    [][ /\ \A p \in participants' :
              p.id \notin { q.id : q \in participants }
                 => tournaments[p.tournamentId].status = "Upcoming"
        /\ \A i \in 1..Len(joins) :
              (JoinCommits(i) /\ db' # db)
                 => tournaments[joins[i].tournamentId].status = "Upcoming" ]_vars

\* A join that passed both pre-checks was turned away by the status check of
\* its transaction, the tournament having gone Live or Completed meanwhile.
JoinClosedWitness ==
    \E i \in 1..Len(joins) :
        /\ joins[i] = JoinDone(1, "closed")
        /\ tournaments[1].status # "Upcoming"
        /\ tournaments[1].currentParticipants < tournaments[1].maxParticipants

\* C17: a join that commits debits the user's wallet by the entry fee, creates
\* one participant record (status Joined, the chosen slot, seenByUser = false),
\* records one debit of the entry fee and adds 1 to currentParticipants, and
\* changes nothing else in the store.
JoinFrame ==
    [][ \A i \in 1..Len(joins) :
           (JoinCommits(i) /\ joins'[i].result = "ok") =>
              LET j == joins[i]
                  fee == tournaments[j.tournamentId].entryFee
              IN /\ users' = [users EXCEPT ![j.userId].walletBalance = @ - fee]
                 /\ \E np \in participants' :
                       /\ np \notin participants
                       /\ participants' = participants \cup {np}
                       /\ np.userId = j.userId
                       /\ np.tournamentId = j.tournamentId
                       /\ np.status = "Joined"
                       /\ np.slotIndex = j.slotIndex
                       /\ np.seenByUser = "false"
                 /\ transactions' = AddTx(transactions, j.userId, fee, "debit")
                 /\ tournaments' = [tournaments EXCEPT
                                      ![j.tournamentId].currentParticipants = @ + 1] ]_vars

\* C18: a winner-flow settlement whose winner has no participant record in the
\* tournament it settles changes no document.
WinnerIsParticipant ==
    [][ \A i \in 1..Len(settles) :
           ( /\ SettleCommits(i)
             /\ settles[i].kind = "winner"
             /\ ~\E p \in ParticipantsOf(settles[i].tournamentId) :
                    p.userId = settles[i].winnerUserId )
              => UNCHANGED db ]_vars

\* C19: a settlement takes the per-kill flow exactly when the tournament it
\* completes is per-kill, and applies that tournament's own prize pool
\* (winner flow) or per-kill prize (per-kill flow).
SettlementUsesOwnValues ==
    [][ \A i \in 1..Len(settles) :
           SettleCommits(i) =>
              LET s == settles[i]
                  t == tournaments[s.tournamentId]
              IN /\ (s.kind = "perKill") = t.perKillEnabled
                 /\ s.kind = "winner" => s.prizePool = t.prizePool
                 /\ s.kind = "perKill" =>
                       currentManagingTournament.perKillPrize = t.perKillPrize ]_vars

\* Team size implied by the mode: solo 1, duo 2, squad 4.
TeamSize(mode) == IF mode = "duo" THEN 2 ELSE IF mode = "squad" THEN 4 ELSE 1

\* C20: every stored tournament has maxParticipants divisible by its team
\* size, so no duo tournament with an odd limit and no squad tournament with a
\* limit not divisible by 4 is ever written.
TeamSizeDivides ==
    \A t \in TIds : tournaments[t].maxParticipants % TeamSize(tournaments[t].mode) = 0

\* A duo tournament with 10 places has been created after a squad tournament.
DuoTenWitness ==
    \E t1, t2 \in TIds :
        /\ t1 < t2
        /\ tournaments[t1].mode = "squad"
        /\ tournaments[t2].mode = "duo" /\ tournaments[t2].maxParticipants = 10

\* C21: a create-tournament submission whose participant limit is zero writes
\* no tournament document.
ZeroLimitRejected ==
    [][ \A f \in CreateForms : f.maxParticipants = 0 => ~CreateTournament(f) ]_vars

\* The error of the earliest violated precondition of join j in the order:
\* status Upcoming, not full, not already joined, slot free, sufficient
\* balance; "" when none is violated.
EarliestJoinError(j) ==
    LET t == tournaments[j.tournamentId]
    IN IF t.status # "Upcoming" THEN "closed"
       ELSE IF t.currentParticipants >= t.maxParticipants THEN "full"
       ELSE IF \E p \in participants :
                  p.userId = j.userId /\ p.tournamentId = j.tournamentId
            THEN "alreadyJoined"
       ELSE IF \E p \in participants :
                  p.tournamentId = j.tournamentId /\ p.slotIndex = j.slotIndex
            THEN "slotTaken"
       ELSE IF users[j.userId].walletBalance < j.entryFee THEN "insufficientBalance"
       ELSE ""

\* C22: a join that returns with an error reports the error of the earliest
\* precondition violated in the state it returns in.
JoinErrorOrder ==
    [][ \A i \in 1..Len(joins) :
           (JoinReturns(i) /\ joins'[i].result # "ok")
              => joins'[i].result = EarliestJoinError(joins[i]) ]_vars

\* texts holds an empty, negative or digitless kill value.
HasInvalidKillText(texts) ==
    \E pid \in DOMAIN texts :
        \/ texts[pid] = << >>
        \/ Head(texts[pid]) = "-"
        \/ \A c \in 1..Len(texts[pid]) : ~IsDigit(texts[pid][c])

SettleEnds(i) ==
    /\ i \in 1..Len(settles)
    /\ settles[i].pc = "commit"
    /\ settles'[i].pc = "done"

\* Every write of settlement s is in the next state: the Completed status, the
\* status, seenByUser and kills of each participant it read, the wallet
\* credits and the credit records.
SettlementWritten(s) ==
    LET prize == currentManagingTournament.perKillPrize
    IN /\ tournaments'[s.tournamentId].status = "Completed"
       /\ \A p \in s.pSnap :
             \E q \in participants' :
                /\ q.id = p.id
                /\ q.status \in {"Winner", "Completed"}
                /\ q.seenByUser = "false"
                /\ s.kind = "perKill" => q.kills = KillsOf(s.killsMap, p.id)
       /\ IF s.kind = "perKill"
          THEN /\ \A u \in Users :
                     users'[u].walletBalance =
                        users[u].walletBalance
                           + PerKillCredit(u, s.pSnap, s.killsMap, prize)
               /\ transactions' = PerKillTxs(transactions, s.pSnap, s.killsMap, prize)
          ELSE /\ users'[s.winnerUserId].walletBalance =
                     users[s.winnerUserId].walletBalance + s.prizePool
               /\ transactions' = AddTx(transactions, s.winnerUserId, s.prizePool, "credit")

\* C25: a settlement that ends either has all its writes applied in that one
\* step or has changed no document, and no other step completes a tournament
\* or changes a participant's status or kills.
SettlementAllOrNothing ==
    [][ /\ \A i \in 1..Len(settles) :
              SettleEnds(i) => (SettlementWritten(settles[i]) \/ UNCHANGED db)
        /\ ( \/ \E t \in TIds : /\ tournaments[t].status # "Completed"
                                /\ tournaments'[t].status = "Completed"
             \/ \E p \in participants : \E q \in participants' :
                   q.id = p.id /\ (q.status # p.status \/ q.kills # p.kills) )
              => \E i \in 1..Len(settles) : SettleEnds(i) ]_vars

\* A settlement's commit was rejected and the store is as it was: no
\* tournament is Completed, no participant settled, no prize credited.
FailedCommitWitness ==
    /\ \E i \in 1..Len(settles) : settles[i] = SettleFailed
    /\ \A t \in TIds : tournaments[t].status = "Upcoming"
    /\ \A p \in participants : p.status = "Joined" /\ p.kills = NoKills
    /\ \A r \in BagToSet(transactions) : r.type = "credit" => r.amount = DepositAmount

\* C26: every tournament's currentParticipants equals the number of
\* participant records that reference it.
CounterMatchesRecords ==
    \A t \in TIds : tournaments[t].currentParticipants = Cardinality(ParticipantsOf(t))

\* A second participant joined tournament 1 and the tournament was then made
\* Live or settled.
CounterWitness ==
    /\ Cardinality(ParticipantsOf(1)) = 2
    /\ tournaments[1].status # "Upcoming"
    /\ \E i \in 1..Len(joins) : joins[i] = JoinDone(1, "ok")

\* C28: a tournament whose status is Upcoming has empty roomId and roomPassword.
UpcomingHasNoRoom ==
    \A t \in TIds :
        tournaments[t].status = "Upcoming"
            => tournaments[t].roomId = "" /\ tournaments[t].roomPassword = ""

\* The room-details update has been applied to tournament 1: it is Live and
\* carries the room credentials.
RoomWitness ==
    /\ tournaments[1].status = "Live"
    /\ tournaments[1].roomId # ""
    /\ tournaments[1].roomPassword # ""

\* C29: a step in which a participant record's seenByUser becomes true changes
\* nothing else: the record's other fields, every other participant record,
\* and all wallets, transactions and tournaments stay as they were.
SeenFrame ==
    [][ \A p \in participants :
           (\E q \in participants' :
               q.id = p.id /\ q.seenByUser = "true" /\ p.seenByUser # "true")
              => /\ participants' =
                       (participants \ {p}) \cup {[p EXCEPT !.seenByUser = "true"]}
                 /\ UNCHANGED << users, transactions, tournaments >> ]_vars

\* A participant settled as Winner with a recorded kill count has been
\* acknowledged, while another participant is still unacknowledged.
SeenWitness ==
    /\ \E p \in participants :
          p.seenByUser = "true" /\ p.status = "Winner" /\ p.kills > 0
    /\ \E p \in participants : p.seenByUser = "false"

\* C27: however often initUserListeners runs, a user page carries at most one
\* set of delegated click handlers and at most one set of join-modal handlers,
\* and one click on the final Join button starts at most one join operation.
HandlersAttachedOnce ==
    [][ /\ \A u \in Users : handlers'[u].delegated <= 1 /\ handlers'[u].joinModal <= 1
        /\ Len(joins') <= Len(joins) + 1 ]_vars

\* ceil(i / n) for positive i and n.
CeilDiv(i, n) == (i + n - 1) \div n

\* The place of the k-th button among the buttons of its team, in build order.
PositionInTeam(buttons, k) ==
    Cardinality({ m \in 1..k : buttons[m].teamId = buttons[k].teamId })

\* The buttons built for a tournament of the given mode and limit offer each
\* slot 1..max exactly once, each with team ceil(slot / teamSize) and position
\* slot - (team - 1) * teamSize within that team.
LayoutAsClaimed(buttons, mode, max) ==
    /\ \A i \in 1..max :
          Cardinality({ k \in DOMAIN buttons : buttons[k].slotIndex = i }) = 1
    /\ \A k \in DOMAIN buttons :
          /\ buttons[k].slotIndex \in 1..max
          /\ buttons[k].teamId = CeilDiv(buttons[k].slotIndex, TeamSize(mode))
          /\ PositionInTeam(buttons, k) =
                buttons[k].slotIndex - (buttons[k].teamId - 1) * TeamSize(mode)

\* C23: for every mode and every limit divisible by the team size, the slot
\* buttons built for selection offer each slot index 1..maxParticipants
\* exactly once, the team attached to slot i is ceil(i / teamSize), and its
\* position within the team is i - (team - 1) * teamSize.
SlotLayoutAsClaimed ==
    \A u \in Users :
       slotButtons[u] # << >> =>
          LET t == tournaments[joinFlowState[u].tournamentId]
          IN LayoutAsClaimed(slotButtons[u], t.mode, t.maxParticipants)

\* The same statement for the duo and squad modes only.
TeamLayoutAsClaimed ==
    \A u \in Users :
       (slotButtons[u] # << >> /\ joinFlowState[u].gameMode # "solo") =>
          LET t == tournaments[joinFlowState[u].tournamentId]
          IN LayoutAsClaimed(slotButtons[u], t.mode, t.maxParticipants)

====
